---- MODULE Spec2Model ----
(***************************************************************************)
(* Model of optimize_IMU_only.py: keyframe decimation, the pass that       *)
(* assembles the factor graph from the IMU stream, the prior factors, the  *)
(* pass that computes the initial values, and the optimizer call.          *)
(*                                                                         *)
(* A preintegrated measurement is modelled by the sequence of the indices  *)
(* of the IMU samples integrated into it since the last reset: the deltas  *)
(* and the covariance gtsam accumulates are a function of that sequence.   *)
(***************************************************************************)
EXTENDS Integers, Sequences, FiniteSets

VARIABLES
    num_samples,                \* len(acc) = len(gyr) = len(dt)
    preintegration_steps,       \* keyframe index list (full, then decimated)
    pc,                         \* position in the script
    i,                          \* loop index of the running pass
    imu_factor_pairs,           \* the zip iterator: pairs not yet yielded
    current_imu_factor_pair,    \* <<s, e>>
    current_preintegrated_IMU,  \* samples integrated since the last reset
    factor_graph,               \* sequence of factors, in push_back order
    initial_values,             \* set of [key, value] entries
    error                       \* name of the uncaught exception, or "none"

vars == <<num_samples, preintegration_steps, pc, i, imu_factor_pairs,
          current_imu_factor_pair, current_preintegrated_IMU, factor_graph,
          initial_values, error>>

\* Largest number of IMU samples of a recording.
MaxSamples == 16

PREINTEGRATE_EVERY_FRAMES == 6

USE_VISUAL_FACTORS == FALSE

----------------------------------------------------------------------------
(* Helpers *)

Last(s) == s[Len(s)]

Range(s) == {s[j] : j \in 1..Len(s)}

Min(S) == CHOOSE m \in S : \A n \in S : m <= n

RECURSIVE SortedSeq(_)
SortedSeq(S) == IF S = {} THEN <<>>
                ELSE <<Min(S)>> \o SortedSeq(S \ {Min(S)})

\* The keyframe index lists build_steps can return for n IMU samples: the
\* index of the IMU sample nearest to each camera frame, strictly increasing.
build_steps(n) == {SortedSeq(S) : S \in SUBSET (0..(n - 1))}

\* steps[::stride]
Slice(steps, stride) ==
    [j \in 1..((Len(steps) + stride - 1) \div stride) |-> steps[(j - 1) * stride + 1]]

\* Mutant: zip(steps, steps[1:] + steps[-1:]), a closing pair (last, last).
Zip_ClosingPair(steps) ==
    [j \in 1..Len(steps) |-> <<steps[j], steps[IF j < Len(steps) THEN j + 1 ELSE j]>>]

\* zip(steps[:-1], steps[1:])
Zip(steps) ==
    IF Len(steps) < 2 THEN <<>>
    ELSE [j \in 1..(Len(steps) - 1) |-> <<steps[j], steps[j + 1]>>]

symbol(letter, index) == <<letter, index>>

NoPair == <<-1, -1>>

Factor(type, keys, pim) == [type |-> type, keys |-> keys, pim |-> pim]

\* Mutant: the end keys written with the start index.
ImuFactor_StartKeysTwice(pair, pim) ==
    Factor("ImuFactor",
           <<symbol("x", pair[1]), symbol("v", pair[1]),
             symbol("x", pair[1]), symbol("v", pair[1]), symbol("b", 0)>>,
           pim)

ImuFactor(pair, pim) ==
    Factor("ImuFactor",
           <<symbol("x", pair[1]), symbol("v", pair[1]),
             symbol("x", pair[2]), symbol("v", pair[2]), symbol("b", 0)>>,
           pim)

\* PreintegratedImuMeasurements
resetIntegration == <<>>
integrateMeasurement(pim, k) == Append(pim, k)

\* predict(initial_state, IMU_bias) on a measurement
predict(pim) == pim

Entry(key, kind, pim) == [key |-> key, value |-> [kind |-> kind, pim |-> pim]]

Keys(values) == {en.key : en \in values}

FactorKeys(graph) == UNION {Range(graph[j].keys) : j \in 1..Len(graph)}

\* Mutant: the factor is emitted on reaching the start of the pair.
AtPairStart(k, pair) == k = pair[1]

\* if i == current_imu_factor_pair[1]
AtPairEnd(k, pair) == k = pair[2]

\* Where a loop over the samples goes after its iteration k.
LoopPc(k, inside, after) == IF k < num_samples THEN inside ELSE after

----------------------------------------------------------------------------
Init ==
    /\ num_samples \in 0..MaxSamples
    /\ preintegration_steps \in build_steps(num_samples)
    /\ pc = "decimate"
    /\ i = 0
    /\ imu_factor_pairs = <<>>
    /\ current_imu_factor_pair = NoPair
    /\ current_preintegrated_IMU = <<>>
    /\ factor_graph = <<>>
    /\ initial_values = {}
    /\ error = "none"

\* preintegration_steps = preintegration_steps[::PREINTEGRATE_EVERY_FRAMES]
Decimate ==
    /\ pc = "decimate"
    /\ preintegration_steps' = Slice(preintegration_steps, PREINTEGRATE_EVERY_FRAMES)
    /\ pc' = "first_pair"
    /\ UNCHANGED <<num_samples, i, imu_factor_pairs, current_imu_factor_pair,
                   current_preintegrated_IMU, factor_graph, initial_values, error>>

\* imu_factor_pairs = zip(...); current_imu_factor_pair = next(imu_factor_pairs);
\* current_preintegrated_IMU.resetIntegration()
FirstPair ==
    /\ pc = "first_pair"
    /\ IF Zip(preintegration_steps) = <<>>
       THEN /\ pc' = "aborted"
            /\ error' = "StopIteration"
            /\ UNCHANGED <<imu_factor_pairs, current_imu_factor_pair,
                           current_preintegrated_IMU, i>>
       ELSE /\ current_imu_factor_pair' = Head(Zip(preintegration_steps))
            /\ imu_factor_pairs' = Tail(Zip(preintegration_steps))
            /\ current_preintegrated_IMU' = resetIntegration
            /\ i' = 0
            /\ pc' = LoopPc(0, "imu_loop", "priors")
            /\ UNCHANGED error
    /\ UNCHANGED <<num_samples, preintegration_steps, factor_graph, initial_values>>

\* Mutant: the sample is accumulated before the test for the end of the pair.
ImuLoopStep_IntegrateFirst ==
    /\ pc = "imu_loop"
    /\ IF AtPairEnd(i, current_imu_factor_pair)
       THEN /\ factor_graph' = Append(factor_graph,
                    ImuFactor(current_imu_factor_pair,
                              integrateMeasurement(current_preintegrated_IMU, i)))
            /\ current_preintegrated_IMU' = resetIntegration
            /\ IF imu_factor_pairs # <<>>
               THEN /\ current_imu_factor_pair' = Head(imu_factor_pairs)
                    /\ imu_factor_pairs' = Tail(imu_factor_pairs)
               ELSE UNCHANGED <<current_imu_factor_pair, imu_factor_pairs>>
       ELSE /\ current_preintegrated_IMU' = integrateMeasurement(current_preintegrated_IMU, i)
            /\ UNCHANGED <<factor_graph, current_imu_factor_pair, imu_factor_pairs>>
    /\ i' = i + 1
    /\ pc' = LoopPc(i + 1, "imu_loop", "priors")
    /\ UNCHANGED <<num_samples, preintegration_steps, initial_values, error>>

\* Mutant: the accumulator is not reset after a factor is pushed.
ImuLoopStep_NoReset ==
    /\ pc = "imu_loop"
    /\ IF AtPairEnd(i, current_imu_factor_pair)
       THEN /\ factor_graph' = Append(factor_graph,
                    ImuFactor(current_imu_factor_pair, current_preintegrated_IMU))
            /\ IF imu_factor_pairs # <<>>
               THEN /\ current_imu_factor_pair' = Head(imu_factor_pairs)
                    /\ imu_factor_pairs' = Tail(imu_factor_pairs)
               ELSE UNCHANGED <<current_imu_factor_pair, imu_factor_pairs>>
       ELSE UNCHANGED <<factor_graph, current_imu_factor_pair, imu_factor_pairs>>
    /\ current_preintegrated_IMU' = integrateMeasurement(current_preintegrated_IMU, i)
    /\ i' = i + 1
    /\ pc' = LoopPc(i + 1, "imu_loop", "priors")
    /\ UNCHANGED <<num_samples, preintegration_steps, initial_values, error>>

\* One iteration of the loop that adds the IMU factors.
ImuLoopStep ==
    /\ pc = "imu_loop"
    /\ IF AtPairEnd(i, current_imu_factor_pair)
       THEN /\ factor_graph' = Append(factor_graph,
                    ImuFactor(current_imu_factor_pair, current_preintegrated_IMU))
            /\ current_preintegrated_IMU' = integrateMeasurement(resetIntegration, i)
            /\ IF imu_factor_pairs # <<>>
               THEN /\ current_imu_factor_pair' = Head(imu_factor_pairs)
                    /\ imu_factor_pairs' = Tail(imu_factor_pairs)
               ELSE UNCHANGED <<current_imu_factor_pair, imu_factor_pairs>>
       ELSE /\ current_preintegrated_IMU' = integrateMeasurement(current_preintegrated_IMU, i)
            /\ UNCHANGED <<factor_graph, current_imu_factor_pair, imu_factor_pairs>>
    /\ i' = i + 1
    /\ pc' = LoopPc(i + 1, "imu_loop", "priors")
    /\ UNCHANGED <<num_samples, preintegration_steps, initial_values, error>>

\* Mutant: the priors on the last keyframe are left out.
PriorFactors_FirstOnly ==
    <<Factor("PriorFactorPose3", <<symbol("x", preintegration_steps[1])>>, <<>>),
      Factor("PriorFactorVector", <<symbol("v", preintegration_steps[1])>>, <<>>),
      Factor("PriorFactorConstantBias", <<symbol("b", 0)>>, <<>>)>>

\* The prior factors pushed after the loop.
PriorFactors ==
    <<Factor("PriorFactorPose3", <<symbol("x", preintegration_steps[1])>>, <<>>),
      Factor("PriorFactorVector", <<symbol("v", preintegration_steps[1])>>, <<>>),
      Factor("PriorFactorConstantBias", <<symbol("b", 0)>>, <<>>)>>
    \o (IF USE_VISUAL_FACTORS
        THEN <<Factor("PriorFactorPoint3", <<symbol("m", 0)>>, <<>>)>>
        ELSE <<>>)
    \o <<Factor("PriorFactorPose3", <<symbol("x", Last(preintegration_steps))>>, <<>>),
         Factor("PriorFactorVector", <<symbol("v", Last(preintegration_steps))>>, <<>>)>>

AddPriors ==
    /\ pc = "priors"
    /\ factor_graph' = factor_graph \o PriorFactors
    /\ pc' = "init_values"
    /\ UNCHANGED <<num_samples, preintegration_steps, i, imu_factor_pairs,
                   current_imu_factor_pair, current_preintegrated_IMU,
                   initial_values, error>>

\* Mutant: the accumulator of the assembly pass is not cleared.
InitValuesStart_NoReset ==
    /\ pc = "init_values"
    /\ initial_values' = {Entry(symbol("b", 0), "IMU_bias", <<>>)}
    /\ i' = 0
    /\ pc' = LoopPc(0, "init_loop", "optimize")
    /\ UNCHANGED <<num_samples, preintegration_steps, imu_factor_pairs,
                   current_imu_factor_pair, current_preintegrated_IMU,
                   factor_graph, error>>

\* initial_values = Values(); insert b0; resetIntegration()
InitValuesStart ==
    /\ pc = "init_values"
    /\ initial_values' = {Entry(symbol("b", 0), "IMU_bias", <<>>)}
    /\ current_preintegrated_IMU' = resetIntegration
    /\ i' = 0
    /\ pc' = LoopPc(0, "init_loop", "optimize")
    /\ UNCHANGED <<num_samples, preintegration_steps, imu_factor_pairs,
                   current_imu_factor_pair, factor_graph, error>>

\* Mutant: set(preintegration_steps[:-1])
preintegration_steps_set_NoLast ==
    {preintegration_steps[j] : j \in 1..(Len(preintegration_steps) - 1)}

preintegration_steps_set == Range(preintegration_steps)

\* One iteration of the loop that computes the initial values.
InitLoopStep ==
    /\ pc = "init_loop"
    /\ IF i \in preintegration_steps_set
       THEN initial_values' = initial_values \cup
                {Entry(symbol("x", i), "pose", predict(current_preintegrated_IMU)),
                 Entry(symbol("v", i), "velocity", predict(current_preintegrated_IMU))}
       ELSE UNCHANGED initial_values
    /\ current_preintegrated_IMU' = integrateMeasurement(current_preintegrated_IMU, i)
    /\ i' = i + 1
    /\ pc' = LoopPc(i + 1, "init_loop", "optimize")
    /\ UNCHANGED <<num_samples, preintegration_steps, imu_factor_pairs,
                   current_imu_factor_pair, factor_graph, error>>

\* GaussNewtonOptimizer(factor_graph, initial_values, ...).optimize()
Optimize ==
    /\ pc = "optimize"
    /\ IF FactorKeys(factor_graph) \subseteq Keys(initial_values)
       THEN pc' = "done" /\ UNCHANGED error
       ELSE pc' = "aborted" /\ error' = "ValuesKeyDoesNotExist"
    /\ UNCHANGED <<num_samples, preintegration_steps, i, imu_factor_pairs,
                   current_imu_factor_pair, current_preintegrated_IMU,
                   factor_graph, initial_values>>

Next ==
    \/ Decimate
    \/ FirstPair
    \/ ImuLoopStep
    \/ AddPriors
    \/ InitValuesStart
    \/ InitLoopStep
    \/ Optimize

Spec == Init /\ [][Next]_vars

----------------------------------------------------------------------------
(* Observations used by the properties *)

IsImuFactor(f) == f.type = "ImuFactor"

ImuFactors == SelectSeq(factor_graph, IsImuFactor)

NonImuFactors == SelectSeq(factor_graph, LAMBDA f : ~IsImuFactor(f))

\* The sequence <<a, a + 1, ..., b>>
Upto(a, b) == [j \in 1..(b - a + 1) |-> a + j - 1]

StartOf(f) == f.keys[1][2]
EndOf(f) == f.keys[3][2]

\* The walk over the samples of the assembly pass has ended.
WalkDone == pc \in {"priors", "init_values", "init_loop", "optimize", "done"}

\* The prior factors have been pushed.
PriorsAdded == pc \in {"init_values", "init_loop", "optimize", "done"}

ValueAt(key) == (CHOOSE en \in initial_values : en.key = key).value

----------------------------------------------------------------------------
(* C1: after the walk over the samples the graph holds exactly one motion  *)
(* factor per consecutive pair (s, e) of the decimated keyframe list, in   *)
(* pair order, and that factor references x_s, v_s, x_e, v_e and b_0.      *)
C1_OneFactorPerPair ==
    WalkDone =>
        /\ Len(ImuFactors) = Len(preintegration_steps) - 1
        /\ \A j \in 1..Len(ImuFactors) :
              ImuFactors[j].keys =
                  <<<<"x", preintegration_steps[j]>>, <<"v", preintegration_steps[j]>>,
                    <<"x", preintegration_steps[j + 1]>>, <<"v", preintegration_steps[j + 1]>>,
                    <<"b", 0>>>>

C1_Witness ==
    /\ pc = "done"
    /\ Len(preintegration_steps) = 3
    /\ Len(ImuFactors) = 2

(* C2, as stated: the sample whose index is the end e of a pair (s, e) is  *)
(* integrated into the measurement of the factor that closes at e.         *)
C2_BoundaryInClosingFactor ==
    \A j \in 1..Len(ImuFactors) :
        EndOf(ImuFactors[j]) \in Range(ImuFactors[j].pim)

(* C2, amended: the sample whose index is the end e of a pair is not in    *)
(* the measurement of the factor that closes at e; it is the first sample  *)
(* integrated after the reset, so it opens the measurement of the next     *)
(* factor, or the accumulator left over after the last factor.             *)
C2_BoundaryOpensNextMeasurement ==
    \A j \in 1..Len(ImuFactors) :
        /\ EndOf(ImuFactors[j]) \notin Range(ImuFactors[j].pim)
        /\ j < Len(ImuFactors) =>
              Head(ImuFactors[j + 1].pim) = EndOf(ImuFactors[j])
        /\ (j = Len(ImuFactors) /\ pc \in {"imu_loop", "priors", "init_values"}) =>
              Head(current_preintegrated_IMU) = EndOf(ImuFactors[j])

C2_Witness ==
    /\ pc = "priors"
    /\ Len(ImuFactors) = 2
    /\ Head(ImuFactors[2].pim) = EndOf(ImuFactors[1])
    /\ Head(current_preintegrated_IMU) = EndOf(ImuFactors[2])

(* C3, as stated: the sample sets of the motion factors are pairwise       *)
(* disjoint and their union is the whole sample range 0..N-1.              *)
C3_FactorsCoverAllSamples ==
    WalkDone =>
        /\ \A j, k \in 1..Len(ImuFactors) :
              j # k => Range(ImuFactors[j].pim) \cap Range(ImuFactors[k].pim) = {}
        /\ UNION {Range(ImuFactors[j].pim) : j \in 1..Len(ImuFactors)}
              = 0..(num_samples - 1)

(* C3, amended: the sample sets of the motion factors are pairwise         *)
(* disjoint, no factor counts a sample twice, and their union is exactly   *)
(* the samples before the last decimated keyframe, 0..last-1; the samples  *)
(* from the last keyframe on are in no factor.                             *)
C3_FactorsCoverUpToLastKeyframe ==
    WalkDone =>
        /\ \A j, k \in 1..Len(ImuFactors) :
              j # k => Range(ImuFactors[j].pim) \cap Range(ImuFactors[k].pim) = {}
        /\ \A j \in 1..Len(ImuFactors) :
              Cardinality(Range(ImuFactors[j].pim)) = Len(ImuFactors[j].pim)
        /\ UNION {Range(ImuFactors[j].pim) : j \in 1..Len(ImuFactors)}
              = 0..(Last(preintegration_steps) - 1)

C3_Witness ==
    /\ pc = "done"
    /\ Len(ImuFactors) = 2
    /\ Last(preintegration_steps) < num_samples - 1
    /\ preintegration_steps[1] > 0

(* C4: decimation keeps both the first and the last index of the full      *)
(* keyframe list.                                                          *)
C4_DecimationKeepsFirstAndLast ==
    [][(pc = "decimate" /\ preintegration_steps # <<>>) =>
          /\ preintegration_steps'[1] = preintegration_steps[1]
          /\ Last(preintegration_steps') = Last(preintegration_steps)]_vars

(* C5: when the optimizer is invoked every key a factor of the graph       *)
(* references has an entry in the initial values, and the run never stops  *)
(* on a missing key.                                                       *)
C5_EveryFactorKeyHasInitialValue ==
    /\ pc = "optimize" =>
          \A j \in 1..Len(factor_graph) :
              \A n \in 1..Len(factor_graph[j].keys) :
                  \E en \in initial_values : en.key = factor_graph[j].keys[n]
    /\ error # "ValuesKeyDoesNotExist"

C5_Witness ==
    /\ pc = "optimize"
    /\ Len(ImuFactors) = 2
    /\ Len(NonImuFactors) = 5
    /\ Cardinality(initial_values) = 7

(* C6, as stated: with fewer than two decimated keyframes the run fails    *)
(* with an AlignmentError, nothing is added to the graph and the optimizer *)
(* is never invoked.                                                       *)
C6_AlignmentErrorOnShortList ==
    (pc \notin {"decimate", "first_pair"} /\ Len(preintegration_steps) < 2) =>
        /\ pc = "aborted"
        /\ error = "AlignmentError"
        /\ factor_graph = <<>>

(* C6, amended: with fewer than two decimated keyframes the run stops on   *)
(* the uncaught StopIteration of next(imu_factor_pairs); nothing is added  *)
(* to the graph, no initial value is computed, the optimizer is never      *)
(* invoked.                                                                *)
C6_StopIterationOnShortList ==
    (pc \notin {"decimate", "first_pair"} /\ Len(preintegration_steps) < 2) =>
        /\ pc = "aborted"
        /\ error = "StopIteration"
        /\ factor_graph = <<>>
        /\ initial_values = {}

C6_Witness ==
    /\ pc = "aborted"
    /\ Len(preintegration_steps) = 1
    /\ num_samples > preintegration_steps[1]

(* C7, as stated, in the configuration the script runs in (its one switch, *)
(* USE_VISUAL_FACTORS, off): besides the motion factors the graph holds    *)
(* only the two priors on the first keyframe and the bias prior.           *)
C7_NoLastKeyframePrior ==
    (PriorsAdded /\ ~USE_VISUAL_FACTORS) =>
        NonImuFactors =
            <<Factor("PriorFactorPose3", <<<<"x", preintegration_steps[1]>>>>, <<>>),
              Factor("PriorFactorVector", <<<<"v", preintegration_steps[1]>>>>, <<>>),
              Factor("PriorFactorConstantBias", <<<<"b", 0>>>>, <<>>)>>

(* C7, amended: the priors on the last keyframe are unconditional. Once    *)
(* the priors are pushed the graph holds, besides the motion factors,      *)
(* exactly the pose and velocity priors on the first keyframe, the bias    *)
(* prior on b_0, and one pose prior and one velocity prior on the last     *)
(* keyframe.                                                               *)
C7_LastKeyframePriorsAlways ==
    PriorsAdded =>
        NonImuFactors =
            <<Factor("PriorFactorPose3", <<<<"x", preintegration_steps[1]>>>>, <<>>),
              Factor("PriorFactorVector", <<<<"v", preintegration_steps[1]>>>>, <<>>),
              Factor("PriorFactorConstantBias", <<<<"b", 0>>>>, <<>>),
              Factor("PriorFactorPose3", <<<<"x", Last(preintegration_steps)>>>>, <<>>),
              Factor("PriorFactorVector", <<<<"v", Last(preintegration_steps)>>>>, <<>>)>>

C7_Witness ==
    /\ pc = "init_values"
    /\ Len(factor_graph) = 7
    /\ factor_graph[7].keys = <<<<"v", Last(preintegration_steps)>>>>

(* C8: the initial-value pass starts from a cleared accumulator and never  *)
(* resets it: in the pass the accumulator holds exactly the samples        *)
(* 0..i-1, and the value inserted for keyframe k is the prediction over    *)
(* exactly the samples 0..k-1 (for keyframe 0, over no sample).            *)
C8_InitialValueIntegratesFromZero ==
    /\ pc = "init_loop" => current_preintegrated_IMU = Upto(0, i - 1)
    /\ \A en \in initial_values :
          en.key[1] \in {"x", "v"} => en.value.pim = Upto(0, en.key[2] - 1)

C8_Witness ==
    /\ pc = "done"
    /\ \E en \in initial_values : en.key = <<"x", 0>> /\ en.value.pim = <<>>
    /\ \E en \in initial_values : en.key = <<"x", 12>> /\ Len(en.value.pim) = 12

(* C9: every motion factor in the graph carries a measurement into which   *)
(* at least one sample was integrated since the last reset.                *)
C9_NoEmptyMotionFactor ==
    \A j \in 1..Len(ImuFactors) : ImuFactors[j].pim # <<>>

C9_Witness ==
    /\ pc = "priors"
    /\ Len(ImuFactors) = 2
    /\ Len(ImuFactors[1].pim) = 6

(* C10: for every pair (s, e) the samples in the motion factor between x_s *)
(* and x_e are the samples the initial-value pass integrates between its   *)
(* predictions at s and at e, namely s..e-1.                               *)
C10_PassesAgree ==
    pc = "done" =>
        \A j \in 1..Len(ImuFactors) :
            /\ ValueAt(ImuFactors[j].keys[1]).pim \o ImuFactors[j].pim
                  = ValueAt(ImuFactors[j].keys[3]).pim
            /\ ImuFactors[j].pim
                  = Upto(StartOf(ImuFactors[j]), EndOf(ImuFactors[j]) - 1)

====
